---- MODULE Spec2Model ----
(***************************************************************************)
(* A model of stack.py: the tile grid built at startup, the DisplayManager *)
(* that drives the ds9 viewer and the .coo sidecar files, and the key      *)
(* loop of __main__.                                                        *)
(*                                                                         *)
(* Coordinates are fixed-point integers, PerPixel units to one pixel, so   *)
(* that the two-decimal formatting of save_regions is a real rounding.     *)
(***************************************************************************)
EXTENDS Integers, Sequences, FiniteSets, TLC

VARIABLES
    limits,     \* Stack.limits: <<NAXIS1, NAXIS2>> of the first image
    sections,   \* __main__ sections: the list of tiles (x1, x1+width, y1, y1+width)
    idx,        \* __main__ idx: index of the current tile, 0-based
    pc,         \* position of __main__
    response,   \* the last result of DisplayManager.imexam: [key, x, y]
    frames,     \* ds9: the set of live frame numbers
    cur,        \* ds9: 'frame frameno', the current frame (0 when there is none)
    blink,      \* ds9: the blink state
    overlay,    \* ds9: per live frame, the regions drawn on it, in drawing order
    loaded,     \* ds9: per live frame, the file and cutout it shows
    filenames,  \* DisplayManager.filenames: frame number -> image
    dsections,  \* DisplayManager.sections: frame number -> tile
    sidecar,    \* the file system: per image, its .coo file
    log,        \* the ds9 commands issued by the last step, in order
    atClear,    \* the frames and the bound frame numbers when the last clear() returned
    error,      \* the exception that ended __main__, "none" while it runs
    writes,     \* the number of save_regions calls so far
    replies     \* ds9: the replies it will give to the imexam queries, in order

vars == <<limits, sections, idx, pc, response, frames, cur, blink, overlay,
          loaded, filenames, dsections, sidecar, log, atClear, error, writes,
          replies>>

----------------------------------------------------------------------------
(* Bounds and constants *)

width == 128

\* the largest mosaic dimension the tile construction is checked for
MaxDim == 257

\* the number of sidecar rewrites (save_regions calls) in one run
MaxWrites == 2

\* the number of bad replies ds9 gives to imexam before a good one
MaxBadReplies == 3

\* fixed-point units per pixel
PerPixel == 10 * 10 * 10

Px(n) == n * PerPixel

----------------------------------------------------------------------------
(* Tile construction, __main__ lines 212-220 *)

\* a range that stops one stride early: the partial tile at the edge is lost
PyRangeShort(start, stop, step) ==
    [i \in 1..((stop - start) \div step) |-> start + (i - 1) * step]

\* range(start, stop, step) for step > 0, as a sequence
PyRange(start, stop, step) ==
    IF stop <= start THEN << >>
    ELSE [i \in 1..((stop - start + step - 1) \div step) |-> start + (i - 1) * step]

\* for y1 in dys: sections.append((x1, x1+width, y1, y1+width))
RECURSIVE InnerLoop(_, _, _)
InnerLoop(x1, dys, acc) ==
    IF dys = << >> THEN acc
    ELSE InnerLoop(x1, Tail(dys),
                   Append(acc, <<x1, x1 + width, Head(dys), Head(dys) + width>>))

\* for x1 in dxs: for y1 in dys: ...
RECURSIVE OuterLoop(_, _, _)
OuterLoop(dxs, dys, acc) ==
    IF dxs = << >> THEN acc
    ELSE OuterLoop(Tail(dxs), dys, InnerLoop(Head(dxs), dys, acc))

BuildSections(lim) ==
    LET dxs == PyRange(1, lim[1] + 1, width)
        dys == PyRange(1, lim[2] + 1, width)
    IN  OuterLoop(dxs, dys, << >>)

----------------------------------------------------------------------------
(* The ds9 viewer, as DisplayManager drives it through display.set/get.    *)
(* A step works on a record s of the viewer, the DisplayManager and the    *)
(* file system; s.err names the exception raised so far, and an operation  *)
(* reached after an exception does nothing.                                *)

\* Stack.file_names: the images the pattern matches, in glob order
FileNames == <<"s1.fits", "s2.fits">>

Images == {FileNames[i] : i \in DOMAIN FileNames}

\* section=None
None_ == << >>

Cmd(s, c) == [s EXCEPT !.log = Append(@, c)]

Raise(s, e) == [s EXCEPT !.err = e]

\* display.set('frame delete all')
DsFrameDeleteAll(s) ==
    [Cmd(s, "frame delete all") EXCEPT
        !.frames = {}, !.cur = 0, !.overlay = << >>, !.loaded = << >>]

\* the number ds9 gives a new frame: the first one not in use
NextFrameNumber(fs) == CHOOSE n \in 1..(Cardinality(fs) + 1) :
                           n \notin fs /\ \A m \in 1..(n - 1) : m \in fs

\* display.set('frame new'): the new frame becomes the current one
DsFrameNew(s) ==
    LET n == NextFrameNumber(s.frames)
    IN  [Cmd(s, "frame new") EXCEPT
            !.frames = @ \cup {n},
            !.cur = n,
            !.overlay = [f \in s.frames \cup {n} |->
                            IF f = n THEN << >> ELSE s.overlay[f]],
            !.loaded = [f \in s.frames \cup {n} |->
                            IF f = n THEN << >> ELSE s.loaded[f]]]

\* display.set('file name[cutout]') into the current frame
DsFile(s, image, cutout) ==
    [Cmd(s, "file") EXCEPT !.loaded[s.cur] = <<image, cutout>>]

\* display.set('regions', ...): one more region on the current frame
DsRegions(s, region) ==
    [Cmd(s, "regions") EXCEPT !.overlay[s.cur] = Append(@, region)]

\* display.set('region delete all')
DsRegionDeleteAll(s) ==
    [Cmd(s, "region delete all") EXCEPT !.overlay[s.cur] = << >>]

\* display.set('blink <setting>')
DsBlink(s, setting) ==
    [Cmd(s, IF setting \in {"yes", "on"} THEN "blink yes" ELSE "blink no") EXCEPT
        !.blink = (setting \in {"yes", "on"})]

----------------------------------------------------------------------------
(* DisplayManager *)

\* frame_number
FrameNumber(s) == s.cur

\* a blink query that never reports the blinking
BlinkingNever(s) == FALSE

\* blinking
Blinking(s) == s.blink

\* a blink that ignores the setting and toggles
BlinkToggle(s, setting) ==
    IF s.err # "none" THEN s
    ELSE DsBlink(s, IF Blinking(s) THEN "no" ELSE "yes")

\* blink(setting=None): setting, or the opposite of the current state;
\* "" stands for the default None
Blink(s, setting) ==
    IF s.err # "none" THEN s
    ELSE DsBlink(s, IF setting # "" THEN setting
                    ELSE IF Blinking(s) THEN "no" ELSE "yes")

\* a clear that issues no command
ClearSkipped(s) == s

\* clear(): frame delete all; filenames and sections are not touched
Clear(s) ==
    IF s.err # "none" THEN s
    ELSE LET t == DsFrameDeleteAll(s)
         IN  [t EXCEPT !.atClear = [frames |-> t.frames,
                                     bound |-> DOMAIN t.filenames]]

\* mark(x, y): a circle on the current frame
Mark(s, x, y) ==
    IF s.err # "none" THEN s
    ELSE DsRegions(s, [kind |-> "circle", x |-> x, y |-> y, text |-> << >>])

\* label(x, y, text)
Label(s, x, y, text) ==
    IF s.err # "none" THEN s
    ELSE DsRegions(s, [kind |-> "text", x |-> x, y |-> y, text |-> text])

\* regions: the (x, y) of every circle on the current frame
RECURSIVE Circles(_)
Circles(rs) ==
    IF rs = << >> THEN << >>
    ELSE IF Head(rs).kind = "circle"
         THEN <<(<<Head(rs).x, Head(rs).y>>)>> \o Circles(Tail(rs))
         ELSE Circles(Tail(rs))

Regions(s) == Circles(s.overlay[FrameNumber(s)])

\* "{:12.2f}".format(v) read back by float(): v rounded to hundredths
Fmt2(v) == ((v + (PerPixel \div 200)) \div (PerPixel \div 100)) * (PerPixel \div 100)

\* load_regions lines 101-103: x - section[0] + 1.0, y - section[2] + 1.0
GlobalToLocal(line, section) ==
    <<line[1] - Px(section[1]) + Px(1), line[2] - Px(section[3]) + Px(1)>>

\* load_regions lines 100-104: every line of the sidecar, shifted, is marked
RECURSIVE MarkLines(_, _, _)
MarkLines(s, lines, section) ==
    IF lines = << >> THEN s
    ELSE LET local == GlobalToLocal(Head(lines), section)
         IN  MarkLines(Mark(s, local[1], local[2]), Tail(lines), section)

\* a load_regions that opens the sidecar without asking whether it exists
LoadRegionsUnchecked(s) ==
    IF s.err # "none" THEN s
    ELSE IF FrameNumber(s) \notin DOMAIN s.filenames THEN Raise(s, "KeyError")
    ELSE IF ~s.sidecar[s.filenames[FrameNumber(s)]].exists THEN Raise(s, "IOError")
    ELSE MarkLines(s, s.sidecar[s.filenames[FrameNumber(s)]].lines,
                   s.dsections[FrameNumber(s)])

\* load_regions()
LoadRegions(s) ==
    IF s.err # "none" THEN s
    ELSE IF FrameNumber(s) \notin DOMAIN s.filenames THEN Raise(s, "KeyError")
    ELSE IF ~s.sidecar[s.filenames[FrameNumber(s)]].exists THEN s
    ELSE LET section == s.dsections[FrameNumber(s)]
             lines == s.sidecar[s.filenames[FrameNumber(s)]].lines
         IN  IF section = None_ /\ lines # << >> THEN Raise(s, "TypeError")
             ELSE MarkLines(s, lines, section)

\* save_regions lines 122-124: region[0] + section[0] - 1 and
\* region[1] + section[1] - 1, each written with two decimals
LocalToGlobal(region, section) ==
    <<Fmt2(region[1] + Px(section[1]) - Px(1)),
      Fmt2(region[2] + Px(section[2]) - Px(1))>>

\* save_regions lines 121-124: one line per circle
SaveLines(regions, section) ==
    [i \in 1..Len(regions) |-> LocalToGlobal(regions[i], section)]

\* save_regions()
SaveRegions(s) ==
    IF s.err # "none" THEN s
    ELSE IF FrameNumber(s) \notin DOMAIN s.filenames THEN Raise(s, "KeyError")
    ELSE LET image == s.filenames[FrameNumber(s)]
             section == s.dsections[FrameNumber(s)]
             opened == [s EXCEPT !.sidecar[image] = [exists |-> TRUE, lines |-> << >>],
                                 !.writes = @ + 1]
         IN  IF section = None_ /\ Regions(s) # << >> THEN Raise(opened, "TypeError")
             ELSE [opened EXCEPT !.sidecar[image].lines =
                                     SaveLines(Regions(s), section)]

\* sqrt((rx-x)**2 + (ry-y)**2) < 1; the squares are taken only of differences
\* below one pixel, a larger difference already decides the comparison
Near(rx, ry, x, y) ==
    LET dx == IF rx >= x THEN rx - x ELSE x - rx
        dy == IF ry >= y THEN ry - y ELSE y - ry
    IN  /\ dx < PerPixel
        /\ dy < PerPixel
        /\ dx * dx + dy * dy < PerPixel * PerPixel

\* delete_region lines 131-137: the lines not near (x, y) are marked as read
RECURSIVE MarkKept(_, _, _, _)
MarkKept(s, lines, x, y) ==
    IF lines = << >> THEN s
    ELSE LET rx == Head(lines)[1]
             ry == Head(lines)[2]
         IN  IF Near(rx, ry, x, y)
             THEN MarkKept(s, Tail(lines), x, y)
             ELSE MarkKept(Mark(s, rx, ry), Tail(lines), x, y)

\* delete_region(x, y)
DeleteRegion(s, x, y) ==
    IF s.err # "none" THEN s
    ELSE IF FrameNumber(s) \notin DOMAIN s.filenames THEN Raise(s, "KeyError")
    ELSE LET image == s.filenames[FrameNumber(s)]
         IN  IF ~s.sidecar[image].exists THEN Raise(s, "IOError")
             ELSE LET lines == s.sidecar[image].lines
                      unlinked == [s EXCEPT !.sidecar[image] =
                                       [exists |-> FALSE, lines |-> << >>]]
                  IN  SaveRegions(MarkKept(DsRegionDeleteAll(unlinked), lines, x, y))

\* a dict with one more (or one replaced) entry
Put(dict, key, value) ==
    [k \in DOMAIN dict \cup {key} |-> IF k = key THEN value ELSE dict[k]]

\* a load_image that writes the sidecar of the frame it has loaded
LoadImageSaving(s, image_name, section) ==
    IF s.err # "none" THEN s
    ELSE LET shown == DsFile(DsFrameNew(s), image_name, section)
             bound == [shown EXCEPT
                          !.filenames = Put(@, FrameNumber(shown), image_name),
                          !.dsections = Put(@, FrameNumber(shown), section)]
         IN  IF section = None_ THEN Raise(bound, "TypeError")
             ELSE SaveRegions(LoadRegions(bound))

\* load_image(image_name, section), frameno=None
LoadImage(s, image_name, section) ==
    IF s.err # "none" THEN s
    ELSE LET framed == Cmd(DsFrameNew(s), "cmap invert yes")
             cutout == section
             shown == DsFile(framed, image_name, cutout)
             bound == [shown EXCEPT
                          !.filenames = Put(@, FrameNumber(shown), image_name),
                          !.dsections = Put(@, FrameNumber(shown), section)]
             fitted == Cmd(bound, "zoom to fit")
         IN  IF section = None_ THEN Raise(fitted, "TypeError")
             ELSE LoadRegions(Label(fitted,
                                    Px(section[2] - 10),
                                    Px(section[3] + section[4]) \div 2,
                                    <<image_name, cutout>>))

\* load_images lines 172-173
RECURSIVE LoadEach(_, _, _)
LoadEach(s, names, section) ==
    IF names = << >> THEN s
    ELSE LoadEach(LoadImage(s, Head(names), section), Tail(names), section)

\* a load_images that stops the blinking and does not start it again
LoadImagesStayOff(s, section) ==
    IF s.err # "none" THEN s
    ELSE LoadEach(IF Blinking(s) THEN Blink(s, "no") ELSE s, FileNames, section)

\* load_images(stack, section)
LoadImages(s, section) ==
    IF s.err # "none" THEN s
    ELSE LET blinking == Blinking(s)
             off == IF blinking THEN Blink(s, "no") ELSE s
             all == LoadEach(off, FileNames, section)
         IN  IF blinking THEN Blink(all, "yes") ELSE all

----------------------------------------------------------------------------
(* __main__ *)

\* seq[k] of Python: 0-based, a negative k counts from the end
InRange(seq, k) == -Len(seq) <= k /\ k < Len(seq)
PyIndex(seq, k) == IF k >= 0 THEN seq[k + 1] ELSE seq[Len(seq) + k + 1]

\* the state a step starts from; the log is the step's own
Now == [frames |-> frames, cur |-> cur, blink |-> blink, overlay |-> overlay,
        loaded |-> loaded, filenames |-> filenames, dsections |-> dsections,
        sidecar |-> sidecar, log |-> << >>, atClear |-> atClear,
        writes |-> writes, err |-> "none"]

\* ds9 while blinking shows one live frame after the other, and the one it
\* shows when the blinking is stopped stays the current frame. cur is read only
\* while ds9 is not blinking ('a' and 'd' return before they use it), so the
\* choice is made in the steps that stop the blinking with frames alive.
Shown == IF blink /\ frames # {} THEN frames ELSE {cur}

\* the state a key is handled from, f being the current frame
At(f) == [Now EXCEPT !.cur = f]

\* the state a step ends in
Becomes(s, ok) ==
    /\ frames' = s.frames
    /\ cur' = s.cur
    /\ blink' = s.blink
    /\ overlay' = s.overlay
    /\ loaded' = s.loaded
    /\ filenames' = s.filenames
    /\ dsections' = s.dsections
    /\ sidecar' = s.sidecar
    /\ log' = s.log
    /\ atClear' = s.atClear
    /\ writes' = s.writes
    /\ error' = s.err
    /\ pc' = IF s.err # "none" THEN "crashed" ELSE ok

\* an advance that wraps around to the first tile
AdvanceWrap(i, n) == (i + 1) % n

\* min(idx+1, len(sections)-1)
Advance(i, n) == IF i + 1 <= n - 1 THEN i + 1 ELSE n - 1

\* max(idx-1, 0)
Retreat(i) == IF i - 1 >= 0 THEN i - 1 ELSE 0

\* the positions imexam reports with the keys 'a' and 'd': (64, 64) and
\* (64.004, 10.5); with the other keys, which do not read the position, (64, 64)
Cursors == { <<Px(64), Px(64)>>, <<Px(64) + 4, Px(10) + PerPixel \div 2>> }

Anywhere == { <<Px(64), Px(64)>> }

Event(key, c) == [key |-> key, x |-> c[1], y |-> c[2]]

\* lines 226-228: idx = 0; d.clear(); d.load_images(stack, section=sections[idx])
Start ==
    /\ pc = "init"
    /\ idx' = 0
    /\ Becomes(LoadImages(Clear(Now), PyIndex(sections, 0)), "idle")
    /\ UNCHANGED <<limits, replies, sections, response>>

\* key 'n', lines 233-237
KeyNext ==
    /\ pc = "idle"
    /\ idx' = Advance(idx, Len(sections))
    /\ \E c \in Anywhere :
          /\ response' = Event("n", c)
          /\ Becomes(LoadImages(Clear(Now), PyIndex(sections, idx')), "idle")
    /\ UNCHANGED <<limits, replies, sections>>

\* key 'p', lines 238-242
KeyPrev ==
    /\ pc = "idle"
    /\ idx' = Retreat(idx)
    /\ \E c \in Anywhere :
          /\ response' = Event("p", c)
          /\ Becomes(LoadImages(Clear(Now), PyIndex(sections, idx')), "idle")
    /\ UNCHANGED <<limits, replies, sections>>

\* key 'b', lines 243-245
KeyBlink ==
    /\ pc = "idle"
    /\ \E f \in Shown, c \in Anywhere :
          /\ response' = Event("b", c)
          /\ Becomes(Blink(At(f), ""), "idle")
    /\ UNCHANGED <<limits, replies, sections, idx>>

\* lines 252-255: mark at the cursor, then save_regions
AddMark(s, x, y) == SaveRegions(Mark(s, x, y))

\* key 'a', lines 246-255
KeyAdd ==
    /\ pc = "idle"
    /\ Blinking(Now) \/ writes < MaxWrites
    /\ \E c \in Cursors :
          /\ response' = Event("a", c)
          /\ IF Blinking(Now)
             THEN Becomes(Now, "idle")
             ELSE Becomes(AddMark(Now, c[1], c[2]), "idle")
    /\ UNCHANGED <<limits, replies, sections, idx>>

\* lines 260-263: delete_region at the cursor in mosaic coordinates, then
\* load_image(stack.file_names[d.frame_number - 1], section=sections[idx])
DeleteMark(s, section, cx, cy) ==
    LET x == Px(section[1]) + cx - Px(1)
        y == Px(section[3]) + cy - Px(1)
        deleted == DeleteRegion(s, x, y)
    IN  IF deleted.err # "none" THEN deleted
        ELSE IF ~InRange(FileNames, FrameNumber(deleted) - 1)
             THEN Raise(deleted, "IndexError")
        ELSE LoadImage(deleted, PyIndex(FileNames, FrameNumber(deleted) - 1), section)

\* key 'd', lines 256-263
KeyDelete ==
    /\ pc = "idle"
    /\ Blinking(Now) \/ writes < MaxWrites
    /\ \E c \in Cursors :
          /\ response' = Event("d", c)
          /\ IF Blinking(Now)
             THEN Becomes(Now, "idle")
             ELSE Becomes(DeleteMark(Now, PyIndex(sections, idx), c[1], c[2]), "idle")
    /\ UNCHANGED <<limits, replies, sections, idx>>

\* key '?', lines 264-265: the help text is printed
KeyHelp ==
    /\ pc = "idle"
    /\ \E c \in Anywhere :
          /\ response' = Event("question", c)
          /\ Becomes(Now, "idle")
    /\ UNCHANGED <<limits, replies, sections, idx>>

\* a key no branch of the loop tests for
KeyOther ==
    /\ pc = "idle"
    /\ \E c \in Anywhere :
          /\ response' = Event("x", c)
          /\ Becomes(Now, "idle")
    /\ UNCHANGED <<limits, replies, sections, idx>>

\* key 'q', lines 267-269
KeyQuit ==
    /\ pc = "idle"
    /\ \E f \in Shown, c \in Anywhere :
          /\ response' = Event("q", c)
          /\ Becomes(Blink(At(f), "no"), "quit")
    /\ UNCHANGED <<limits, replies, sections, idx>>

\* the mosaic of the key loop's runs: one tile wide, two tiles high
MainLimits == <<width, 2 * width>>

NoFile == [exists |-> FALSE, lines |-> << >>]

\* a sidecar left by an earlier run: (64, 64), (64.5, 64.5), (10, 10)
OldFile == [exists |-> TRUE,
            lines |-> << <<Px(64), Px(64)>>,
                         <<Px(64) + PerPixel \div 2, Px(64) + PerPixel \div 2>>,
                         <<Px(10), Px(10)>> >>]

\* the sidecars at startup: none, or one for the first image
InitialSidecars == { [i \in Images |-> NoFile],
                     [i \in Images |-> IF i = FileNames[1] THEN OldFile ELSE NoFile] }

\* the state after d = DisplayManager(): no frames, blinking
Init ==
    /\ limits = MainLimits
    /\ sections = BuildSections(limits)
    /\ idx = 0
    /\ pc = "init"
    /\ response = Event("", <<0, 0>>)
    /\ frames = {}
    /\ cur = 0
    /\ blink = TRUE
    /\ overlay = << >>
    /\ loaded = << >>
    /\ filenames = << >>
    /\ dsections = << >>
    /\ sidecar \in InitialSidecars
    /\ log = << >>
    /\ atClear = [frames |-> {}, bound |-> {}]
    /\ error = "none"
    /\ writes = 0
    /\ replies = << >>

Next ==
    \/ Start
    \/ KeyNext
    \/ KeyPrev
    \/ KeyBlink
    \/ KeyAdd
    \/ KeyDelete
    \/ KeyHelp
    \/ KeyOther
    \/ KeyQuit

Spec == Init /\ [][Next]_vars

----------------------------------------------------------------------------
(* The tile construction on its own: any mosaic size of DimSet, lines 212-220 *)

\* the mosaic dimensions tried: the smallest ones, and those next to a
\* multiple of the tile width
DimSet == {n \in 1..MaxDim : n % width \in {0, 1, 2, width - 1}}

TilesInit ==
    /\ limits \in DimSet \X DimSet
    /\ sections = << >>
    /\ idx = 0
    /\ pc = "args"
    /\ response = Event("", <<0, 0>>)
    /\ frames = {}
    /\ cur = 0
    /\ blink = FALSE
    /\ overlay = << >>
    /\ loaded = << >>
    /\ filenames = << >>
    /\ dsections = << >>
    /\ sidecar = [i \in Images |-> NoFile]
    /\ log = << >>
    /\ atClear = [frames |-> {}, bound |-> {}]
    /\ error = "none"
    /\ writes = 0
    /\ replies = << >>

\* lines 214-220
BuildTiles ==
    /\ pc = "args"
    /\ sections' = BuildSections(limits)
    /\ pc' = "tiles"
    /\ UNCHANGED <<limits, replies, idx, response, frames, cur, blink, overlay, loaded,
                   filenames, dsections, sidecar, log, atClear, error, writes>>

SpecTiles == TilesInit /\ [][BuildTiles]_vars

\* pixel (px, py) lies inside the inclusive bounds of tile t
Inside(px, py, t) == t[1] <= px /\ px <= t[2] /\ t[3] <= py /\ py <= t[4]

CeilDiv(a, b) == (a + b - 1) \div b

\* C1: the tiles built for a W x H mosaic cover every pixel of [1,W] x [1,H],
\* come in x-outer / y-inner order of their start corners, and number
\* ceil(W/width) * ceil(H/width).
C1_TilesCoverInOrder ==
    pc = "tiles" =>
        /\ \A px \in 1..limits[1] : \A py \in 1..limits[2] :
              \E k \in DOMAIN sections : Inside(px, py, sections[k])
        /\ \A k \in 1..(Len(sections) - 1) :
              \/ sections[k][1] < sections[k + 1][1]
              \/ /\ sections[k][1] = sections[k + 1][1]
                 /\ sections[k][3] < sections[k + 1][3]
        /\ Len(sections) = CeilDiv(limits[1], width) * CeilDiv(limits[2], width)

\* a 257 x 129 mosaic: three columns of two tiles, the last ones partial
C1_Witness ==
    /\ pc = "tiles"
    /\ limits = <<2 * width + 1, width + 1>>
    /\ Len(sections) = 6
    /\ sections[6][1] = 2 * width + 1

\* C2: no pixel lies inside two distinct tiles, and a 256 x 256 mosaic gives
\* (1,128,1,128), (1,128,129,256), (129,256,1,128), (129,256,129,256).
C2_TilesDisjoint ==
    pc = "tiles" =>
        /\ \A j, k \in DOMAIN sections :
              j # k => ~ \E px \in sections[j][1]..sections[j][2] :
                         \E py \in sections[j][3]..sections[j][4] :
                             Inside(px, py, sections[k])
        /\ limits = <<2 * width, 2 * width>> =>
              sections = << <<1, width, 1, width>>,
                            <<1, width, width + 1, 2 * width>>,
                            <<width + 1, 2 * width, 1, width>>,
                            <<width + 1, 2 * width, width + 1, 2 * width>> >>

----------------------------------------------------------------------------
(* The key loop *)

Last(l) == l[Len(l)]

\* C3: the tile index stays within [0, number of tiles - 1]; 'n' moves it by +1
\* and 'p' by -1, except that 'n' on the last tile and 'p' on the first leave it
\* where it is, and neither raises an error.
C3_NavigationSaturates ==
    [][ /\ idx' \in 0..(Len(sections') - 1)
        /\ (pc = "idle" /\ response'.key = "n") =>
              /\ idx' = IF idx = Len(sections) - 1 THEN idx ELSE idx + 1
              /\ pc' = "idle"
        /\ (pc = "idle" /\ response'.key = "p") =>
              /\ idx' = IF idx = 0 THEN idx ELSE idx - 1
              /\ pc' = "idle" ]_vars

\* 'n' was pressed on the last tile, which is still the current one
C3_Witness ==
    /\ pc = "idle"
    /\ response.key = "n"
    /\ idx = Len(sections) - 1
    /\ frames = 1..Len(FileNames)

\* the set of points a sidecar holds
Points(file) == {file.lines[i] : i \in DOMAIN file.lines}

\* the mosaic position of the viewer position (x, y) of a frame showing tile t,
\* as the sidecar format holds it
Mosaic(x, y, t) == <<Fmt2(x + Px(t[1]) - Px(1)), Fmt2(y + Px(t[3]) - Px(1))>>

\* C4: after an accepted 'a', the sidecar of the current frame's image holds,
\* for every marker (x, y) on that frame, the point
\* (x + x_min - 1, y + y_min - 1) of the frame's tile.
C4_SaveStoresMosaicCoordinates ==
    (pc = "idle" /\ response.key = "a" /\ ~blink) =>
        LET t == dsections[cur]
            marks == Circles(overlay[cur])
        IN  sidecar[filenames[cur]].lines =
                [i \in DOMAIN marks |-> Mosaic(marks[i][1], marks[i][2], t)]

\* C6: an accepted 'd' at the mosaic position (x, y) leaves no stored point
\* nearer than one pixel to (x, y) in the sidecar of the current frame's image,
\* and leaves every stored point farther away than one pixel in it, unchanged.
C6_DeleteRemovesAllAndOnlyNear ==
    [][ (/\ pc = "idle"
         /\ ~blink
         /\ response'.key = "d"
         /\ sidecar[filenames[cur]].exists) =>
            LET t == PyIndex(sections, idx)
                x == response'.x + Px(t[1]) - Px(1)
                y == response'.y + Px(t[3]) - Px(1)
                before == Points(sidecar[filenames[cur]])
                after == Points(sidecar'[filenames[cur]])
            IN  /\ \A p \in after : ~Near(p[1], p[2], x, y)
                /\ \A p \in before : ~Near(p[1], p[2], x, y) => p \in after ]_vars

\* C7: 'a' or 'd' while ds9 blinks changes no sidecar, no marker, no frame, no
\* binding, neither the tile index nor the blink state, issues no command and
\* leaves the loop running.
C7_MarkWhileBlinkingRejected ==
    [][ (pc = "idle" /\ blink /\ response'.key \in {"a", "d"}) =>
            /\ UNCHANGED <<sidecar, overlay, frames, loaded, idx, filenames,
                           dsections, blink, writes>>
            /\ log' = << >>
            /\ pc' = "idle" ]_vars

\* 'd' was rejected with a sidecar on disk and both frames loaded
C7_Witness ==
    /\ pc = "idle"
    /\ blink
    /\ response.key = "d"
    /\ log = << >>
    /\ sidecar[FileNames[1]].exists
    /\ frames = 1..Len(FileNames)

\* C8: 'q' ends the loop with ds9 not blinking, the last command issued being
\* the one that switches the blinking off; no step follows it.
C8_QuitForcesBlinkOff ==
    [][ /\ pc # "quit"
        /\ (pc = "idle" /\ response'.key = "q") =>
              /\ pc' = "quit"
              /\ ~blink'
              /\ log' # << >>
              /\ Last(log') = "blink no" ]_vars

\* the loop has ended by 'q'
C8_Witness ==
    /\ pc = "quit"
    /\ response.key = "q"
    /\ ~blink
    /\ log = <<"blink no">>

\* in the commands l, 'frame delete all' comes before every frame creation and
\* every file load, and a file is loaded
ClearedFirst(l) ==
    /\ \E j \in DOMAIN l : l[j] = "file"
    /\ \E i \in DOMAIN l :
          /\ l[i] = "frame delete all"
          /\ \A j \in DOMAIN l : l[j] \in {"file", "frame new"} => i < j

\* C9: at startup and on every 'n' and 'p', also at a boundary, the frames are
\* deleted before the first image of the stack is loaded.
C9_ClearBeforeLoad ==
    [][ (pc = "init" \/ (pc = "idle" /\ response'.key \in {"n", "p"})) =>
            ClearedFirst(log') ]_vars

\* 'p' on the first tile has reloaded the stack
C9_Witness ==
    /\ pc = "idle"
    /\ response.key = "p"
    /\ idx = 0
    /\ Len(SelectSeq(log, LAMBDA c : c = "file")) = Len(FileNames)

\* C10: when clear() returns, ds9 has no frame and no frame number is bound to
\* an image and a tile; after 'n' or 'p' only the live frames are bound.
C10_ClearEmptiesBindings ==
    /\ atClear.frames = {}
    /\ atClear.bound = {}
    /\ (pc = "idle" /\ response.key \in {"n", "p"}) => DOMAIN filenames = frames

\* the step loads the stack: startup, 'n' or 'p'
LoadsStack == pc = "init" \/ (pc = "idle" /\ response'.key \in {"n", "p"})

\* C12: loading an image that has no sidecar raises nothing, creates no sidecar
\* and draws no marker, and the new frame is bound to the image and the tile.
C12_MissingSidecarLoads ==
    [][ LoadsStack =>
            \A i \in Images : ~sidecar[i].exists =>
                /\ pc' = "idle"
                /\ error' = "none"
                /\ ~sidecar'[i].exists
                /\ \E f \in frames' :
                      /\ filenames'[f] = i
                      /\ dsections'[f] = PyIndex(sections, idx')
                      /\ loaded'[f] = <<i, PyIndex(sections, idx')>>
                      /\ Circles(overlay'[f]) = << >> ]_vars

\* 'n' has loaded an image with a sidecar, with its markers, and one without
C12_Witness ==
    /\ pc = "idle"
    /\ response.key = "n"
    /\ sidecar[FileNames[1]].exists
    /\ Circles(overlay[1]) # << >>
    /\ ~sidecar[FileNames[2]].exists
    /\ filenames[2] = FileNames[2]
    /\ Circles(overlay[2]) = << >>

\* C13: whenever the loop waits for a key, ds9 has one frame per image of the
\* stack, in the order of the stack, each bound to its image and to the
\* current tile.
C13_OneFramePerImage ==
    pc = "idle" =>
        /\ frames = 1..Len(FileNames)
        /\ DOMAIN filenames = frames
        /\ \A f \in frames :
              /\ filenames[f] = FileNames[f]
              /\ dsections[f] = PyIndex(sections, idx)
              /\ loaded[f] = <<FileNames[f], PyIndex(sections, idx)>>

\* C14: an accepted 'd' on a frame whose image has a sidecar raises nothing and
\* loads again the image bound to that frame, at the current tile.
C14_DeleteReloadsBoundImage ==
    [][ (/\ pc = "idle"
         /\ ~blink
         /\ response'.key = "d"
         /\ sidecar[filenames[cur]].exists) =>
            /\ pc' = "idle"
            /\ error' = "none"
            /\ filenames'[cur'] = filenames[cur]
            /\ dsections'[cur'] = PyIndex(sections, idx)
            /\ loaded'[cur'] = <<filenames[cur], PyIndex(sections, idx)>> ]_vars

\* the viewer position on a frame showing tile t of the mosaic position p
Local(p, t) == <<p[1] - Px(t[1]) + Px(1), p[2] - Px(t[3]) + Px(1)>>

\* C15: whenever the loop waits for a key, the circles of every frame whose
\* image has a sidecar are the points of the sidecar, each at
\* (x - x_min + 1, y - y_min + 1) of the frame's tile.
C15_OverlayMatchesSidecar ==
    pc = "idle" =>
        \A f \in frames : sidecar[filenames[f]].exists =>
            LET marks == Circles(overlay[f])
            IN  {marks[i] : i \in DOMAIN marks} =
                    {Local(p, dsections[f]) : p \in Points(sidecar[filenames[f]])}

\* in the commands l the blinking is stopped once, before every frame creation
\* and file load, and started once, by the last command
LoadedNotBlinking(l) ==
    /\ SelectSeq(l, LAMBDA c : c \in {"blink no", "blink yes"}) =
           <<"blink no", "blink yes">>
    /\ Last(l) = "blink yes"
    /\ \E i \in DOMAIN l :
          /\ l[i] = "blink no"
          /\ \A j \in DOMAIN l : l[j] \in {"frame new", "file", "regions"} => i < j

\* C16: loading the stack leaves ds9 blinking exactly if it was; if it was, the
\* blinking is stopped before the first image is loaded and started again after
\* the last, and if it was not, no blink command is issued.
C16_LoadKeepsBlinkState ==
    [][ LoadsStack =>
            /\ blink' = blink
            /\ blink => LoadedNotBlinking(log')
            /\ ~blink => \A j \in DOMAIN log' : log'[j] \notin {"blink no", "blink yes"}
      ]_vars

\* 'n' has loaded the stack while ds9 was blinking
C16_Witness ==
    /\ pc = "idle"
    /\ response.key = "n"
    /\ blink
    /\ idx = 1
    /\ Last(log) = "blink yes"
    /\ frames = 1..Len(FileNames)

\* C18: 'n', 'p', 'b', '?' and the keys the loop does not know create, change
\* and delete no sidecar.
C18_OtherKeysLeaveSidecars ==
    [][ (pc = "idle" /\ response'.key \in {"n", "p", "b", "question", "x"}) =>
            /\ sidecar' = sidecar
            /\ writes' = writes ]_vars

\* 'n' has loaded the stack with a sidecar on disk, which still has its points
C18_Witness ==
    /\ pc = "idle"
    /\ response.key = "n"
    /\ idx = 1
    /\ ~blink
    /\ sidecar[FileNames[1]] = OldFile
    /\ Len(Circles(overlay[1])) = Len(OldFile.lines)

\* C19: an accepted 'a' at (x, y) adds the point (x + x_min - 1, y + y_min - 1)
\* of the current tile to the points stored for the current frame's image,
\* keeps the points that were stored, and leaves the other sidecars alone.
C19_AddOnlyAdds ==
    [][ (pc = "idle" /\ ~blink /\ response'.key = "a") =>
            LET image == filenames[cur]
                point == Mosaic(response'.x, response'.y, dsections[cur])
            IN  /\ pc' = "idle"
                /\ sidecar'[image].exists
                /\ Points(sidecar'[image]) = Points(sidecar[image]) \cup {point}
                /\ \A o \in Images \ {image} : sidecar'[o] = sidecar[o] ]_vars

\* C20: an accepted 'd' on a frame whose image has no sidecar raises nothing,
\* leaves the loop waiting for the next key and leaves no point stored.
C20_DeleteWithoutSidecarHarmless ==
    [][ (/\ pc = "idle"
         /\ ~blink
         /\ response'.key = "d"
         /\ ~sidecar[filenames[cur]].exists) =>
            /\ pc' = "idle"
            /\ error' = "none"
            /\ Points(sidecar'[filenames[cur]]) = {} ]_vars

----------------------------------------------------------------------------
(* Saving a mark and loading it again on the same tile: the step of 'a' that *)
(* follows d.mark (save_regions, line 255), then the reload of the stack     *)
(* that 'n' and 'p' do at a boundary (lines 236-237, 241-242).               *)

\* the tiles of a mosaic two tiles wide and two tiles high
RoundTripSections == BuildSections(<<2 * width, 2 * width>>)

\* viewer coordinates marked: 1, 64, 64.004 and 64.5
RoundTripCoords == {Px(1), Px(64), Px(64) + 4, Px(64) + PerPixel \div 2}

\* no frame, no sidecar, not blinking
Fresh == [frames |-> {}, cur |-> 0, blink |-> FALSE, overlay |-> << >>,
          loaded |-> << >>, filenames |-> << >>, dsections |-> << >>,
          sidecar |-> [i \in Images |-> NoFile], log |-> << >>,
          atClear |-> [frames |-> {}, bound |-> {}], writes |-> 0,
          err |-> "none"]

\* the stack is loaded at tile k, frame f is the current one, and (x, y) has
\* just been marked on it
RoundTripInit ==
    \E k \in DOMAIN RoundTripSections, f \in DOMAIN FileNames,
       x \in RoundTripCoords, y \in RoundTripCoords :
        LET stack == LoadImages(Clear(Fresh), RoundTripSections[k])
            s == Mark([stack EXCEPT !.cur = f], x, y)
        IN  /\ limits = <<2 * width, 2 * width>>
            /\ sections = RoundTripSections
            /\ idx = k - 1
            /\ pc = "marked"
            /\ response = Event("a", <<x, y>>)
            /\ frames = s.frames
            /\ cur = s.cur
            /\ blink = s.blink
            /\ overlay = s.overlay
            /\ loaded = s.loaded
            /\ filenames = s.filenames
            /\ dsections = s.dsections
            /\ sidecar = s.sidecar
            /\ log = s.log
            /\ atClear = s.atClear
            /\ error = s.err
            /\ writes = s.writes
            /\ replies = << >>

\* line 255: d.save_regions()
RoundTripSave ==
    /\ pc = "marked"
    /\ Becomes(SaveRegions(Now), "saved")
    /\ UNCHANGED <<limits, replies, sections, idx, response>>

\* d.clear(); d.load_images(stack, section=sections[idx])
RoundTripLoad ==
    /\ pc = "saved"
    /\ Becomes(LoadImages(Clear(Now), PyIndex(sections, idx)), "reloaded")
    /\ UNCHANGED <<limits, replies, sections, idx, response>>

SpecRoundTrip == RoundTripInit /\ [][RoundTripSave \/ RoundTripLoad]_vars

\* C5: a point marked at (x, y), saved, and loaded again on the same tile is
\* drawn at (x, y) again, on both axes.
C5_RoundTripExact ==
    pc = "reloaded" =>
        \A f \in frames :
            sidecar[filenames[f]].exists =>
                Circles(overlay[f]) = << <<response.x, response.y>> >>

----------------------------------------------------------------------------
(* imexam on its own, lines 178-191: ds9 answers the query with a run of bad *)
(* replies and then a good one.                                             *)

\* a word of a reply: a number float() reads, or some other text
Num(v) == [num |-> TRUE, val |-> v, text |-> ""]
Tok(text) == [num |-> FALSE, val |-> 0, text |-> text]

\* display.get(command) raises e, or returns the words
Raises(e) == [raises |-> e, words |-> << >>]
Says(words) == [raises |-> "none", words |-> words]

\* a key and the position of the cursor
GoodReplies == { Says(<<Tok("a"), Num(Px(64)), Num(Px(64))>>),
                 Says(<<Tok("n"), Num(Px(1)), Num(Px(10) + PerPixel \div 2)>>) }

\* the query fails in XPA (pyds9 raises ValueError), or the reply is empty,
\* has no coordinates, or has a coordinate that is no number
BadReplies == { Raises("ValueError"),
                Says(<< >>),
                Says(<<Tok("a")>>),
                Says(<<Tok("a"), Tok("-"), Num(Px(64))>>) }

BadRuns == UNION {[1..n -> BadReplies] : n \in 0..MaxBadReplies}

\* imexam(): lines 182-187 ask again only when get raises ValueError; lines
\* 188-190 take result[0], float(result[1]), float(result[2]) of whatever came
RECURSIVE Imexam(_)
Imexam(rs) ==
    IF rs = << >> THEN [err |-> "blocked", event |-> Event("", <<0, 0>>), rest |-> rs]
    ELSE LET r == Head(rs)
             w == r.words
             failed(e) == [err |-> e, event |-> Event("", <<0, 0>>), rest |-> Tail(rs)]
         IN  IF r.raises = "ValueError" THEN Imexam(Tail(rs))
             ELSE IF r.raises # "none" THEN failed(r.raises)
             ELSE IF Len(w) < 2 THEN failed("IndexError")
             ELSE IF ~w[2].num THEN failed("ValueError")
             ELSE IF Len(w) < 3 THEN failed("IndexError")
             ELSE IF ~w[3].num THEN failed("ValueError")
             ELSE [err |-> "none",
                   event |-> Event(w[1].text, <<w[2].val, w[3].val>>),
                   rest |-> Tail(rs)]

ImexamInit ==
    /\ limits = MainLimits
    /\ sections = BuildSections(limits)
    /\ idx = 0
    /\ pc = "imexam"
    /\ response = Event("", <<0, 0>>)
    /\ frames = {}
    /\ cur = 0
    /\ blink = FALSE
    /\ overlay = << >>
    /\ loaded = << >>
    /\ filenames = << >>
    /\ dsections = << >>
    /\ sidecar = [i \in Images |-> NoFile]
    /\ log = << >>
    /\ atClear = [frames |-> {}, bound |-> {}]
    /\ error = "none"
    /\ writes = 0
    /\ \E bad \in BadRuns, good \in GoodReplies : replies = Append(bad, good)

\* line 231: response = d.imexam()
ImexamCall ==
    /\ pc = "imexam"
    /\ LET got == Imexam(replies)
       IN  /\ replies' = got.rest
           /\ error' = got.err
           /\ pc' = IF got.err = "none" THEN "dispatch" ELSE "crashed"
           /\ response' = IF got.err = "none" THEN got.event ELSE response
    /\ UNCHANGED <<limits, sections, idx, frames, cur, blink, overlay, loaded,
                   filenames, dsections, sidecar, log, atClear, writes>>

SpecImexam == ImexamInit /\ [][ImexamCall]_vars

\* C11: whatever bad replies (a failed read, a reply without a key and two
\* numbers) come before a good one, imexam raises nothing and returns the key
\* and the position of the good reply.
C11_ImexamRetriesBadReplies ==
    [][ pc = "imexam" =>
            LET good == Last(replies).words
            IN  /\ pc' = "dispatch"
                /\ error' = "none"
                /\ replies' = << >>
                /\ response' = Event(good[1].text, <<good[2].val, good[3].val>>)
      ]_vars

----------------------------------------------------------------------------
(* load_image called without a section, its default, lines 143-157 *)

\* the sidecars an image can have when it is loaded
NoTileFiles == { NoFile,
                 OldFile,
                 [exists |-> TRUE, lines |-> << >>],
                 [exists |-> TRUE, lines |-> << <<Px(1), Px(1)>> >>],
                 [exists |-> TRUE, lines |-> << <<Px(width), Px(width)>> >>] }

\* a new DisplayManager, ds9 blinking or not
NoTileInit ==
    /\ limits = MainLimits
    /\ sections = BuildSections(limits)
    /\ idx = 0
    /\ pc = "load_image"
    /\ response = Event("", <<0, 0>>)
    /\ frames = {}
    /\ cur = 0
    /\ blink \in BOOLEAN
    /\ overlay = << >>
    /\ loaded = << >>
    /\ filenames = << >>
    /\ dsections = << >>
    /\ sidecar \in [Images -> NoTileFiles]
    /\ log = << >>
    /\ atClear = [frames |-> {}, bound |-> {}]
    /\ error = "none"
    /\ writes = 0
    /\ replies = << >>

\* d.load_image(image_name): section=None, frameno=None
NoTileLoad ==
    /\ pc = "load_image"
    /\ \E image \in Images : Becomes(LoadImage(Now, image, None_), "loaded")
    /\ UNCHANGED <<limits, replies, sections, idx, response>>

SpecNoTile == NoTileInit /\ [][NoTileLoad]_vars

\* C17: load_image without a section raises nothing and binds the new frame to
\* the image and to no section, so that marks are saved and loaded unshifted.
C17_LoadWithoutTile ==
    [][ pc = "load_image" =>
            /\ pc' = "loaded"
            /\ error' = "none"
            /\ filenames'[cur'] \in Images
            /\ dsections'[cur'] = None_
            /\ loaded'[cur'] = <<filenames'[cur'], None_>> ]_vars

====
